---- MODULE Spec2Model ----
(***************************************************************************)
(* GraphAPIClient (src/Python/graphapi_client.py): a client object caching *)
(* an access token, a site id and a drive id, whose public methods each    *)
(* check a cached identifier, build a URL and send one HTTP request        *)
(* through the shared transport _request.                                  *)
(*                                                                         *)
(* The remote token endpoint, the Graph service and the local file system  *)
(* are the environment: every response is an input drawn from a small set, *)
(* except that the answers to create_folder and get_folder_contents on a   *)
(* root folder come from remote, the entries the service holds there.      *)
(* sent is the list of HTTP requests the last method call put on the wire, *)
(* last describes that call (method name, arguments, the client's fields   *)
(* before it, its outcome and its return value).                           *)
(***************************************************************************)
EXTENDS Integers, Sequences, FiniteSets, TLC

VARIABLES access_token, site_id, drive_id,   \* the client's cached fields
          sent,                              \* requests sent by the last call
          last,                              \* the last call
          issued,                            \* tokens the token endpoint has returned
          tokenCalls,                        \* requests sent to the token endpoint so far
          opsLeft,                           \* public method calls the caller still makes
          createdSessions,                   \* session URLs returned to create_upload_session
          cancelledSessions,                 \* session URLs whose cancel call returned
          disk,                              \* the local files
          remote,                            \* per drive, the entries of its root folder as listed
          driveSite                          \* site_id as it was when drive_id was assigned

vars == <<access_token, site_id, drive_id, sent, last, issued, tokenCalls,
          opsLeft, createdSessions, cancelledSessions, disk, remote, driveSite>>

----------------------------------------------------------------------------
(* Bounds *)

\* length of the call sequences explored, over all methods and over the
\* upload-session methods
MaxOps == 3
MaxUploadOps == 4

\* length of the call sequences explored over the folder methods, entries a
\* root folder holds at the start, and entries the service lists per page
MaxFolderOps == 4

\* length of the call sequences explored over the setup methods and two
\* drive-scoped methods
MaxSiteOps == 4
MaxEntries == 2
PageSize == 2

----------------------------------------------------------------------------
(* Values *)

\* Python's None
None == "<None>"

\* str(x) as an f-string formats it
Str(x) == IF x = None THEN "None" ELSE x

\* `not x` on a cached field: None and the empty string are falsy
Falsy(x) == x = None \/ x = ""

TenantId == "tenant-1"
TenantName == "contoso"
BaseUrl == "https://graph.microsoft.com/v1.0"
TokenUrl == "https://login.microsoftonline.com/" \o TenantId \o "/oauth2/v2.0/token"

Tokens == {"t1", "t2"}
SiteNames == {"A", "B"}
SiteIds == {"siteA", "siteB"}
SessionUrls == {"https://upload.example/s1", "https://upload.example/s2"}
Statuses == {200, 304, 404}
TokenStatuses == {200, 304, 401}

\* caller-supplied arguments of upload_chunk and create_sharing_link
\* <<start, end, total_size>>: the chunk's own range, a range shorter than the
\* chunk, a range that ends before it starts, a range beyond the total size
Chunks == {<<1, 2>>}
Ranges == {<<0, 1, 2>>, <<0, 0, 12>>, <<1, 0, 2>>, <<1, 1, 1>>}
LinkTypes == {"view", "edit", "bogus"}
LinkScopes == {"anonymous"}

\* local paths, as their components
Paths == {<<"docs", "in.txt">>, <<"out.bin">>}

----------------------------------------------------------------------------
(* Responses of the environment *)

\* a response: its status, whether its body decodes as JSON, and the parts of
\* the decoded body or raw content the client reads
Response(status, json, id, value, nextLink, content) ==
    [status |-> status, json |-> json, id |-> id, value |-> value,
     nextLink |-> nextLink, content |-> content]

NoResponse == Response(0, FALSE, "", <<>>, FALSE, <<>>)

\* token endpoint: body {"access_token": id}, or a body that is no JSON
TokenResponses ==
    {Response(s, TRUE, t, <<>>, FALSE, <<>>) : s \in {200, 304}, t \in Tokens}
    \cup {Response(s, FALSE, "", <<>>, FALSE, <<>>) : s \in TokenStatuses \ {200}}

\* responses whose body the caller ignores
PlainResponses == {Response(s, FALSE, "", <<>>, FALSE, <<>>) : s \in Statuses}

\* responses carrying one JSON object, or a redirect-class answer without one
ObjectResponses(ids) ==
    {Response(200, TRUE, i, <<>>, FALSE, <<>>) : i \in ids}
    \cup {Response(s, FALSE, "", <<>>, FALSE, <<>>) : s \in Statuses \ {200}}

\* responses carrying a JSON collection {"value": [...], "@odata.nextLink": ...}
ListResponses(values) ==
    {Response(200, TRUE, "", v, n, <<>>) : v \in values, n \in BOOLEAN}
    \cup {Response(s, FALSE, "", <<>>, FALSE, <<>>) : s \in Statuses \ {200}}

\* the collections the service lists
DriveIds == {"d1", "d2"}
DriveLists == {<<>>, <<"d1">>, <<"d2", "d1">>}
ItemLists == {<<"item1", "item2">>}

\* responses carrying raw bytes
ContentResponses ==
    {Response(s, FALSE, "", <<>>, FALSE, <<7, 8>>) : s \in Statuses}

----------------------------------------------------------------------------
(* Requests *)

Request(endpoint, method, url, headers, encoding, json, data, params) ==
    [endpoint |-> endpoint, method |-> method, url |-> url, headers |-> headers,
     encoding |-> encoding, json |-> json, data |-> data, params |-> params]

\* keyword arguments of _request
Kwargs(hasHeaders, headers, encoding, json, data, params) ==
    [hasHeaders |-> hasHeaders, headers |-> headers, encoding |-> encoding,
     json |-> json, data |-> data, params |-> params]

NoKwargs == Kwargs(FALSE, {}, "none", {}, <<>>, {})
Json(body) == Kwargs(FALSE, {}, "json", body, <<>>, {})

\* variant: only server errors raise
RaiseForServerErrors(status) == status >= 500 /\ status < 600

\* response.raise_for_status(): raises HTTPError for 4xx and 5xx
RaiseForStatus(status) == status >= 400 /\ status < 600

\* _get_headers
_get_headers(token) ==
    {<<"Authorization", "Bearer " \o Str(token)>>,
     <<"Content-Type", "application/json">>}

\* variant: the token is fetched before every request
NeedsTokenAlways(token) == TRUE

\* _request: `if not self.access_token`
NeedsToken(token) == Falsy(token)

\* the token request of get_access_token
TokenRequest ==
    Request("token", "POST", TokenUrl, {}, "form",
            {<<"grant_type", "client_credentials">>,
             <<"scope", "https://graph.microsoft.com/.default">>}, <<>>, {})

\* variant: a rejected token request is sent a second time
AccessTokenRetrying(tr) ==
    IF RaiseForStatus(tr.status)
    THEN [outcome |-> "AuthError", token |-> access_token, tstatus |-> tr.status,
          sent |-> <<TokenRequest, TokenRequest>>, issued |-> {}]
    ELSE IF ~tr.json
    THEN [outcome |-> "JSONDecodeError", token |-> access_token, tstatus |-> tr.status,
          sent |-> <<TokenRequest>>, issued |-> {}]
    ELSE [outcome |-> "ok", token |-> tr.id, tstatus |-> tr.status,
          sent |-> <<TokenRequest>>, issued |-> {tr.id}]

\* get_access_token with the token endpoint answering tr: the outcome, the
\* cached token afterwards and the requests sent
AccessToken(tr) ==
    IF RaiseForStatus(tr.status)
    THEN [outcome |-> "AuthError", token |-> access_token, tstatus |-> tr.status,
          sent |-> <<TokenRequest>>, issued |-> {}]
    ELSE IF ~tr.json
    THEN [outcome |-> "JSONDecodeError", token |-> access_token, tstatus |-> tr.status,
          sent |-> <<TokenRequest>>, issued |-> {}]
    ELSE [outcome |-> "ok", token |-> tr.id, tstatus |-> tr.status,
          sent |-> <<TokenRequest>>, issued |-> {tr.id}]

\* variant: a request answered with an error status is sent again
_request_retrying(method, url, kw, tr, rr) ==
    LET fetch == NeedsToken(access_token)
        ok == ~fetch \/ (~RaiseForStatus(tr.status) /\ tr.json)
        token == IF fetch /\ ok THEN tr.id ELSE access_token
        headers == IF kw.hasHeaders THEN kw.headers ELSE _get_headers(token)
        req == Request("resource", method, url, headers, kw.encoding, kw.json,
                       kw.data, kw.params)
        asked == IF fetch THEN <<TokenRequest>> ELSE <<>>
    IN  IF ~ok
        THEN [outcome |-> IF RaiseForStatus(tr.status) THEN "AuthError"
                          ELSE "JSONDecodeError",
              token |-> token, status |-> <<tr.status, 0>>, sent |-> asked,
              issued |-> {}, response |-> NoResponse]
        ELSE [outcome |-> IF RaiseForStatus(rr.status) THEN "RemoteError" ELSE "ok",
              token |-> token,
              status |-> <<IF fetch THEN tr.status ELSE 0, rr.status>>,
              sent |-> IF RaiseForStatus(rr.status)
                       THEN asked \o <<req, req>> ELSE Append(asked, req),
              issued |-> IF fetch THEN {tr.id} ELSE {}, response |-> rr]

\* _request(method, url, **kw) with the token endpoint answering tr (when
\* asked) and the resource endpoint answering rr
_request(method, url, kw, tr, rr) ==
    LET at == IF NeedsToken(access_token)
              THEN AccessToken(tr)
              ELSE [outcome |-> "ok", token |-> access_token, tstatus |-> 0,
                    sent |-> <<>>, issued |-> {}]
        headers == IF kw.hasHeaders THEN kw.headers ELSE _get_headers(at.token)
        req == Request("resource", method, url, headers, kw.encoding, kw.json,
                       kw.data, kw.params)
    IN  IF at.outcome # "ok"
        THEN [outcome |-> at.outcome, token |-> at.token,
              status |-> <<at.tstatus, 0>>,
              sent |-> at.sent, issued |-> at.issued, response |-> NoResponse]
        ELSE [outcome |-> IF RaiseForStatus(rr.status) THEN "RemoteError" ELSE "ok",
              token |-> at.token, status |-> <<at.tstatus, rr.status>>,
              sent |-> Append(at.sent, req), issued |-> at.issued, response |-> rr]

\* the answers the token endpoint can give to the call at hand: it is asked
\* only when _request finds no token
TokenAnswers == IF NeedsToken(access_token) THEN TokenResponses ELSE {NoResponse}

\* the answers the resource endpoint can give, among R: it is asked only when
\* a token is at hand
ResourceAnswers(tr, R) ==
    IF NeedsToken(access_token) /\ AccessToken(tr).outcome # "ok"
    THEN {NoResponse} ELSE R

\* response.json(), response.json()['value'], or nothing, after _request returned
Decode(kind, r) ==
    IF r.outcome # "ok" THEN [outcome |-> r.outcome, result |-> None]
    ELSE IF kind = "none" THEN [outcome |-> "ok", result |-> None]
    ELSE IF ~r.response.json THEN [outcome |-> "JSONDecodeError", result |-> None]
    ELSE IF kind = "value" THEN [outcome |-> "ok", result |-> r.response.value]
    ELSE [outcome |-> "ok", result |-> r.response.id]

----------------------------------------------------------------------------
(* The remote drive: what the service does with the requests of             *)
(* create_folder, upload_file and get_folder_contents on a root folder      *)

Range(s) == {s[i] : i \in DOMAIN s}

EntryNames == {"X", "Y", "Z"}

\* the root folders a drive can hold when the client is constructed
PriorContents ==
    {e \in UNION {[1..n -> EntryNames] : n \in 0..MaxEntries} :
        \A i, j \in DOMAIN e : e[i] = e[j] => i = j}

\* "@microsoft.graph.conflictBehavior": "rename": a name that is taken gets
\* the first free numeric suffix
NewName(name, entries) ==
    IF name \notin Range(entries) THEN name
    ELSE LET free(k) == (name \o " " \o ToString(k)) \notin Range(entries)
             k == CHOOSE n \in 1..(Len(entries) + 1) :
                      free(n) /\ \A j \in 1..(n - 1) : ~free(j)
         IN  name \o " " \o ToString(k)

\* the page of a listing the service returns to one request
FirstPage(entries) ==
    SubSeq(entries, 1, IF Len(entries) < PageSize THEN Len(entries) ELSE PageSize)

RootChildren(d) == BaseUrl \o "/drives/" \o d \o "/items/root/children"
RootContent(d, name) == BaseUrl \o "/drives/" \o d \o "/items/root:/" \o name \o ":/content"

\* the "name" field of a JSON body
BodyName(q) == (CHOOSE p \in q.json : p[1] = "name")[2]

\* answers to create_folder: the item created, told by the name it got
CreatedAnswers(folder_name, parent_id) ==
    ObjectResponses({IF parent_id = "root" THEN NewName(folder_name, remote[drive_id])
                     ELSE folder_name})

\* answers to get_folder_contents: the first page of the folder's entries, with
\* a continuation link when there are more
FolderAnswers(folder_id) ==
    IF folder_id = "root"
    THEN {Response(200, TRUE, "", FirstPage(remote[drive_id]),
                   Len(remote[drive_id]) > PageSize, <<>>)}
         \cup {Response(s, FALSE, "", <<>>, FALSE, <<>>) : s \in Statuses \ {200}}
    ELSE ListResponses(ItemLists)

\* the root folders after the service answered the resource request among reqs
\* with rstatus: a POST to a root's children makes a folder, a PUT of a root
\* file's content makes the file when it is not there
RemoteAfter(reqs, rstatus) ==
    LET rs == {reqs[i] : i \in {j \in DOMAIN reqs : reqs[j].endpoint = "resource"}}
        made == {m \in DriveIds \X rs :
                    m[2].method = "POST" /\ m[2].url = RootChildren(m[1])}
        put == {m \in DriveIds \X rs \X {"in.txt", "out.bin"} :
                    m[2].method = "PUT" /\ m[2].url = RootContent(m[1], m[3])}
    IN  IF rstatus \notin 200..299 THEN remote
        ELSE IF made # {}
        THEN LET m == CHOOSE x \in made : TRUE
             IN  [remote EXCEPT ![m[1]] = Append(@, NewName(BodyName(m[2]), @))]
        ELSE IF put # {}
        THEN LET m == CHOOSE x \in put : TRUE
             IN  [remote EXCEPT ![m[1]] =
                     IF m[3] \in Range(@) THEN @ ELSE Append(@, m[3])]
        ELSE remote

----------------------------------------------------------------------------
(* The effect of one public method call *)

Called(op, args, outcome, status, response, result, token, site, drive, reqs, newTokens, created, cancelled, files) ==
    /\ opsLeft > 0
    /\ opsLeft' = opsLeft - 1
    /\ access_token' = token
    /\ site_id' = site
    /\ drive_id' = drive
    /\ sent' = reqs
    /\ last' = [op |-> op, args |-> args, outcome |-> outcome,
                tstatus |-> status[1], rstatus |-> status[2],
                nextLink |-> response.nextLink, result |-> result,
                token |-> access_token, site |-> site_id, drive |-> drive_id,
                response |-> response]
    /\ issued' = issued \cup newTokens
    /\ tokenCalls' = tokenCalls
                     + Cardinality({i \in 1..Len(reqs) : reqs[i].endpoint = "token"})
    /\ createdSessions' = created
    /\ cancelledSessions' = cancelled
    /\ disk' = files
    /\ remote' = RemoteAfter(reqs, status[2])
    /\ driveSite' = IF op = "get_drive_id" /\ outcome = "ok" THEN site_id ELSE driveSite

\* raise ValueError(...) from the check of a cached identifier
Raise(op, args) ==
    Called(op, args, "ContextError", <<0, 0>>, NoResponse, None, access_token, site_id, drive_id,
           <<>>, {}, createdSessions, cancelledSessions, disk)

\* a method that sends one request and returns the decoded response
Call(op, args, method, url, kw, kind, R) ==
    \E tr \in TokenAnswers : \E rr \in ResourceAnswers(tr, R) :
        LET r == _request(method, url, kw, tr, rr)
            d == Decode(kind, r)
        IN  Called(op, args, d.outcome, r.status, r.response, d.result,
                   r.token, site_id, drive_id, r.sent, r.issued,
                   createdSessions, cancelledSessions, disk)

----------------------------------------------------------------------------
(* Authentication and setup *)

\* variant: a failed acquisition drops the cached token
get_access_token_clearing ==
    \E tr \in TokenResponses :
        LET at == AccessToken(tr)
        IN  Called("get_access_token", <<>>, at.outcome, <<at.tstatus, 0>>, tr,
                   IF at.outcome = "ok" THEN at.token ELSE None,
                   IF at.outcome = "ok" THEN at.token ELSE None, site_id, drive_id, at.sent, at.issued,
                   createdSessions, cancelledSessions, disk)

get_access_token ==
    \E tr \in TokenResponses :
        LET at == AccessToken(tr)
        IN  Called("get_access_token", <<>>, at.outcome, <<at.tstatus, 0>>, tr,
                   IF at.outcome = "ok" THEN at.token ELSE None,
                   at.token, site_id, drive_id, at.sent, at.issued,
                   createdSessions, cancelledSessions, disk)

\* variant: a new site drops the cached drive
get_site_id_resetting(site_name) ==
    \E tr \in TokenAnswers : \E rr \in ResourceAnswers(tr, ObjectResponses(SiteIds)) :
        LET r == _request("GET", BaseUrl \o "/sites/" \o TenantName
                                 \o ".sharepoint.com:/sites/" \o site_name,
                          NoKwargs, tr, rr)
            d == Decode("json", r)
        IN  Called("get_site_id", <<site_name>>, d.outcome, r.status, r.response, d.result,
                   r.token, IF d.outcome = "ok" THEN d.result ELSE site_id,
                   IF d.outcome = "ok" THEN None ELSE drive_id,
                   r.sent, r.issued, createdSessions, cancelledSessions, disk)

get_site_id(site_name) ==
    \E tr \in TokenAnswers : \E rr \in ResourceAnswers(tr, ObjectResponses(SiteIds)) :
        LET r == _request("GET", BaseUrl \o "/sites/" \o TenantName
                                 \o ".sharepoint.com:/sites/" \o site_name,
                          NoKwargs, tr, rr)
            d == Decode("json", r)
        IN  Called("get_site_id", <<site_name>>, d.outcome, r.status, r.response, d.result,
                   r.token, IF d.outcome = "ok" THEN d.result ELSE site_id, drive_id,
                   r.sent, r.issued, createdSessions, cancelledSessions, disk)

\* variant: an empty collection of drives is no fault
get_drive_id_tolerant ==
    IF Falsy(site_id) THEN Raise("get_drive_id", <<>>)
    ELSE \E tr \in TokenAnswers : \E rr \in ResourceAnswers(tr, ListResponses(DriveLists)) :
        LET r == _request("GET", BaseUrl \o "/sites/" \o site_id \o "/drives",
                          NoKwargs, tr, rr)
            d == Decode("value", r)
            empty == d.outcome = "ok" /\ d.result = <<>>
            found == d.outcome = "ok" /\ d.result # <<>>
        IN  Called("get_drive_id", <<>>,
                   d.outcome, r.status,
                   r.response,
                   IF found THEN d.result[1] ELSE None,
                   r.token, site_id,
                   IF found THEN d.result[1] ELSE drive_id,
                   r.sent, r.issued, createdSessions, cancelledSessions, disk)

get_drive_id ==
    IF Falsy(site_id) THEN Raise("get_drive_id", <<>>)
    ELSE \E tr \in TokenAnswers : \E rr \in ResourceAnswers(tr, ListResponses(DriveLists)) :
        LET r == _request("GET", BaseUrl \o "/sites/" \o site_id \o "/drives",
                          NoKwargs, tr, rr)
            d == Decode("value", r)
            empty == d.outcome = "ok" /\ d.result = <<>>
            found == d.outcome = "ok" /\ d.result # <<>>
        IN  Called("get_drive_id", <<>>,
                   IF empty THEN "IndexError" ELSE d.outcome, r.status,
                   r.response,
                   IF found THEN d.result[1] ELSE None,
                   r.token, site_id,
                   IF found THEN d.result[1] ELSE drive_id,
                   r.sent, r.issued, createdSessions, cancelledSessions, disk)

----------------------------------------------------------------------------
(* File management *)

DriveItems == BaseUrl \o "/drives/" \o drive_id \o "/items/"

\* variant: the body names the folder after its parent
create_folder_misnamed(folder_name, parent_id) ==
    IF Falsy(drive_id) THEN Raise("create_folder", <<folder_name, parent_id>>)
    ELSE Call("create_folder", <<folder_name, parent_id>>, "POST",
              DriveItems \o parent_id \o "/children",
              Json({<<"name", parent_id>>, <<"folder", "{}">>,
                    <<"@microsoft.graph.conflictBehavior", "rename">>}),
              "json", CreatedAnswers(parent_id, parent_id))

create_folder(folder_name, parent_id) ==
    IF Falsy(drive_id) THEN Raise("create_folder", <<folder_name, parent_id>>)
    ELSE Call("create_folder", <<folder_name, parent_id>>, "POST",
              DriveItems \o parent_id \o "/children",
              Json({<<"name", folder_name>>, <<"folder", "{}">>,
                    <<"@microsoft.graph.conflictBehavior", "rename">>}),
              "json", CreatedAnswers(folder_name, parent_id))

\* variant: the check of drive_id is missing
delete_file_unguarded(file_id) ==
    Call("delete_file", <<file_id>>, "DELETE", DriveItems \o file_id,
         NoKwargs, "none", PlainResponses)

delete_file(file_id) ==
    IF Falsy(drive_id) THEN Raise("delete_file", <<file_id>>)
    ELSE Call("delete_file", <<file_id>>, "DELETE", DriveItems \o file_id,
              NoKwargs, "none", PlainResponses)

\* variant: the body also names a conflict behaviour
rename_file_renaming(file_id, new_name) ==
    IF Falsy(drive_id) THEN Raise("rename_file", <<file_id, new_name>>)
    ELSE Call("rename_file", <<file_id, new_name>>, "PATCH", DriveItems \o file_id,
              Json({<<"name", new_name>>,
                    <<"@microsoft.graph.conflictBehavior", "rename">>}),
              "json", ObjectResponses({new_name, "kept.txt"}))

\* the item in the answer is told by its name: the new one, or another
rename_file(file_id, new_name) ==
    IF Falsy(drive_id) THEN Raise("rename_file", <<file_id, new_name>>)
    ELSE Call("rename_file", <<file_id, new_name>>, "PATCH", DriveItems \o file_id,
              Json({<<"name", new_name>>}), "json", ObjectResponses({new_name, "kept.txt"}))

copy_file(file_id, new_name, destination_id) ==
    IF Falsy(drive_id) THEN Raise("copy_file", <<file_id, new_name, destination_id>>)
    ELSE Call("copy_file", <<file_id, new_name, destination_id>>, "POST",
              DriveItems \o file_id \o "/copy",
              Json({<<"parentReference.driveId", drive_id>>,
                    <<"parentReference.id", destination_id>>,
                    <<"name", new_name>>}),
              "json", ObjectResponses({"item1"}))

move_file(file_id, destination_folder_id) ==
    IF Falsy(drive_id) THEN Raise("move_file", <<file_id, destination_folder_id>>)
    ELSE Call("move_file", <<file_id, destination_folder_id>>, "PATCH",
              DriveItems \o file_id,
              Json({<<"parentReference.id", destination_folder_id>>}),
              "json", ObjectResponses({"item1"}))

get_file_metadata(file_id) ==
    IF Falsy(drive_id) THEN Raise("get_file_metadata", <<file_id>>)
    ELSE Call("get_file_metadata", <<file_id>>, "GET", DriveItems \o file_id,
              NoKwargs, "json", ObjectResponses({"item1"}))

get_folder_contents(folder_id) ==
    IF Falsy(drive_id) THEN Raise("get_folder_contents", <<folder_id>>)
    ELSE Call("get_folder_contents", <<folder_id>>, "GET",
              DriveItems \o folder_id \o "/children",
              NoKwargs, "value", FolderAnswers(folder_id))

search_files(search_term) ==
    IF Falsy(drive_id) THEN Raise("search_files", <<search_term>>)
    ELSE Call("search_files", <<search_term>>, "GET",
              BaseUrl \o "/drives/" \o drive_id \o "/root/search(q='"
                      \o search_term \o "')",
              NoKwargs, "value", ListResponses(ItemLists))

\* local write of download_file: open(output_path, 'wb') fails, or truncates
\* the file and f.write fails, or the content is written
WriteOutcomes == {"written", "open_fails", "write_fails"}

\* variant: the destination is opened before the request is sent
download_file_opening_first(file_id, output_path) ==
    IF Falsy(drive_id) THEN Raise("download_file", <<file_id, output_path>>)
    ELSE \E tr \in TokenAnswers : \E rr \in ResourceAnswers(tr, ContentResponses) :
         \E w \in WriteOutcomes :
        LET r == _request("GET", DriveItems \o file_id \o "/content", NoKwargs, tr, rr)
            files == IF w = "open_fails" THEN disk
                     ELSE [disk EXCEPT ![output_path] =
                             [exists |-> TRUE,
                              content |-> IF r.outcome = "ok" /\ w = "written"
                                          THEN r.response.content ELSE <<>>]]
        IN  Called("download_file", <<file_id, output_path>>,
                   IF r.outcome = "ok" /\ w # "written" THEN "OSError" ELSE r.outcome,
                   r.status, r.response, None, r.token, site_id, drive_id, r.sent, r.issued,
                   createdSessions, cancelledSessions, files)

download_file(file_id, output_path) ==
    IF Falsy(drive_id) THEN Raise("download_file", <<file_id, output_path>>)
    ELSE \E tr \in TokenAnswers : \E rr \in ResourceAnswers(tr, ContentResponses) :
         \E w \in WriteOutcomes :
        LET r == _request("GET", DriveItems \o file_id \o "/content", NoKwargs, tr, rr)
            files == IF r.outcome # "ok" \/ w = "open_fails" THEN disk
                     ELSE [disk EXCEPT ![output_path] =
                             [exists |-> TRUE,
                              content |-> IF w = "written" THEN r.response.content
                                          ELSE <<>>]]
        IN  Called("download_file", <<file_id, output_path>>,
                   IF r.outcome = "ok" /\ w # "written" THEN "OSError" ELSE r.outcome,
                   r.status, r.response, None, r.token, site_id, drive_id, r.sent, r.issued,
                   createdSessions, cancelledSessions, files)

\* os.path.basename
basename(path) == path[Len(path)]

upload_file(file_path, folder_id) ==
    IF Falsy(drive_id) THEN Raise("upload_file", <<file_path, folder_id>>)
    ELSE IF ~disk[file_path].exists
    THEN Called("upload_file", <<file_path, folder_id>>, "OSError", <<0, 0>>, NoResponse,
                None,
                access_token, site_id, drive_id, <<>>, {},
                createdSessions, cancelledSessions, disk)
    ELSE Call("upload_file", <<file_path, folder_id>>, "PUT",
              DriveItems \o folder_id \o ":/" \o basename(file_path) \o ":/content",
              Kwargs(TRUE, {<<"Authorization", "Bearer " \o Str(access_token)>>},
                     "raw", {}, disk[file_path].content, {}),
              "json", ObjectResponses({"item1"}))

create_upload_session(filename, folder_id) ==
    IF Falsy(drive_id) THEN Raise("create_upload_session", <<filename, folder_id>>)
    ELSE \E tr \in TokenAnswers :
         \E rr \in ResourceAnswers(tr, ObjectResponses({"https://upload.example/s1"})) :
        LET r == _request("POST", DriveItems \o folder_id \o ":/" \o filename
                                  \o ":/createUploadSession",
                          Json({<<"item.@microsoft.graph.conflictBehavior", "rename">>,
                                <<"item.name", filename>>}), tr, rr)
            d == Decode("json", r)
        IN  Called("create_upload_session", <<filename, folder_id>>, d.outcome,
                   r.status, r.response, d.result, r.token, site_id, drive_id, r.sent,
                   r.issued,
                   IF d.outcome = "ok" THEN createdSessions \cup {d.result}
                   ELSE createdSessions,
                   cancelledSessions, disk)

\* variant: the end of the range is computed from the chunk's length
ContentRangeFromLength(chunk_data, start, end, total_size) ==
    "bytes " \o ToString(start) \o "-" \o ToString(start + Len(chunk_data) - 1)
             \o "/" \o ToString(total_size)

\* the Content-Range header of upload_chunk
ContentRange(chunk_data, start, end, total_size) ==
    "bytes " \o ToString(start) \o "-" \o ToString(end) \o "/" \o ToString(total_size)

\* variant: upload_chunk checks drive_id like the drive-scoped methods
upload_chunk_drive_scoped(session_url, chunk_data, start, end, total_size) ==
    IF Falsy(drive_id)
    THEN Raise("upload_chunk", <<session_url, chunk_data, start, end, total_size>>)
    ELSE Call("upload_chunk", <<session_url, chunk_data, start, end, total_size>>,
              "PUT", session_url,
              Kwargs(TRUE, {<<"Authorization", "Bearer " \o Str(access_token)>>,
                            <<"Content-Length", ToString(Len(chunk_data))>>,
                            <<"Content-Range",
                              ContentRange(chunk_data, start, end, total_size)>>},
                     "raw", {}, chunk_data, {}),
              "json", ObjectResponses({"item1"}))

\* variant: a chunk the service rejects makes upload_chunk cancel the session
upload_chunk_cancelling(session_url, chunk_data, start, end, total_size) ==
    \E tr \in TokenAnswers : \E rr \in ResourceAnswers(tr, ObjectResponses({"item1"})) :
        LET kw == Kwargs(TRUE, {<<"Authorization", "Bearer " \o Str(access_token)>>,
                               <<"Content-Length", ToString(Len(chunk_data))>>,
                               <<"Content-Range",
                                 ContentRange(chunk_data, start, end, total_size)>>},
                         "raw", {}, chunk_data, {})
            r == _request("PUT", session_url, kw, tr, rr)
            d == Decode("json", r)
            cancel == Request("resource", "DELETE", session_url, _get_headers(r.token),
                              "none", {}, <<>>, {})
        IN  Called("upload_chunk", <<session_url, chunk_data, start, end, total_size>>,
                   d.outcome, r.status, r.response, d.result, r.token, site_id, drive_id,
                   IF r.outcome = "RemoteError" THEN Append(r.sent, cancel) ELSE r.sent,
                   r.issued, createdSessions, cancelledSessions, disk)

upload_chunk(session_url, chunk_data, start, end, total_size) ==
    Call("upload_chunk", <<session_url, chunk_data, start, end, total_size>>, "PUT",
         session_url,
         Kwargs(TRUE, {<<"Authorization", "Bearer " \o Str(access_token)>>,
                       <<"Content-Length", ToString(Len(chunk_data))>>,
                       <<"Content-Range",
                         ContentRange(chunk_data, start, end, total_size)>>},
                "raw", {}, chunk_data, {}),
         "json", ObjectResponses({"item1"}))

get_upload_session_status(session_url) ==
    Call("get_upload_session_status", <<session_url>>, "GET", session_url,
         NoKwargs, "json", ObjectResponses({"item1"}))

cancel_upload_session(session_url) ==
    \E tr \in TokenAnswers : \E rr \in ResourceAnswers(tr, PlainResponses) :
        LET r == _request("DELETE", session_url, NoKwargs, tr, rr)
        IN  Called("cancel_upload_session", <<session_url>>, r.outcome, r.status,
                   r.response, None, r.token, site_id, drive_id, r.sent, r.issued,
                   createdSessions,
                   IF r.outcome = "ok" THEN cancelledSessions \cup {session_url}
                   ELSE cancelledSessions,
                   disk)

----------------------------------------------------------------------------
(* Document sets *)

SiteLists == BaseUrl \o "/sites/" \o site_id \o "/lists/"

DocumentSetFields(title) ==
    {<<"fields.Title", title>>, <<"fields.ContentTypeId", "0x0120D520">>}

get_all_document_sets(list_id) ==
    IF Falsy(site_id) THEN Raise("get_all_document_sets", <<list_id>>)
    ELSE Call("get_all_document_sets", <<list_id>>, "GET",
              SiteLists \o list_id \o "/items",
              Kwargs(FALSE, {}, "none", {}, <<>>,
                     {<<"$filter", "contentType/name eq 'Document Set'">>}),
              "value", ListResponses(ItemLists))

get_document_set_details(list_id, docset_id) ==
    IF Falsy(site_id) THEN Raise("get_document_set_details", <<list_id, docset_id>>)
    ELSE Call("get_document_set_details", <<list_id, docset_id>>, "GET",
              SiteLists \o list_id \o "/items/" \o docset_id,
              NoKwargs, "json", ObjectResponses({"item1"}))

create_document_set(list_id, title) ==
    IF Falsy(site_id) THEN Raise("create_document_set", <<list_id, title>>)
    ELSE Call("create_document_set", <<list_id, title>>, "POST",
              SiteLists \o list_id \o "/items",
              Json(DocumentSetFields(title)), "json", ObjectResponses({"item1"}))

update_document_set(list_id, docset_id, title) ==
    IF Falsy(site_id) THEN Raise("update_document_set", <<list_id, docset_id, title>>)
    ELSE Call("update_document_set", <<list_id, docset_id, title>>, "PATCH",
              SiteLists \o list_id \o "/items/" \o docset_id,
              Json(DocumentSetFields(title)), "json", ObjectResponses({"item1"}))

get_documents_in_set(docset_id) ==
    IF Falsy(drive_id) THEN Raise("get_documents_in_set", <<docset_id>>)
    ELSE Call("get_documents_in_set", <<docset_id>>, "GET",
              DriveItems \o docset_id \o "/children",
              NoKwargs, "value", ListResponses(ItemLists))

delete_document_set(list_id, docset_id) ==
    IF Falsy(site_id) THEN Raise("delete_document_set", <<list_id, docset_id>>)
    ELSE Call("delete_document_set", <<list_id, docset_id>>, "DELETE",
              SiteLists \o list_id \o "/items/" \o docset_id,
              NoKwargs, "none", PlainResponses)

----------------------------------------------------------------------------
(* Security and sharing *)

get_item_permissions(file_id) ==
    IF Falsy(drive_id) THEN Raise("get_item_permissions", <<file_id>>)
    ELSE Call("get_item_permissions", <<file_id>>, "GET",
              DriveItems \o file_id \o "/permissions",
              NoKwargs, "value", ListResponses(ItemLists))

share_with_user(file_id, email, role) ==
    IF Falsy(drive_id) THEN Raise("share_with_user", <<file_id, email, role>>)
    ELSE Call("share_with_user", <<file_id, email, role>>, "POST",
              DriveItems \o file_id \o "/invite",
              Json({<<"recipients[0].email", email>>, <<"roles[0]", role>>,
                    <<"requireSignIn", "true">>}),
              "json", ObjectResponses({"item1"}))

\* variant: the client rejects a link type it does not know
create_sharing_link_validating(file_id, link_type, scope) ==
    IF Falsy(drive_id) \/ link_type \notin {"view", "edit", "embed"}
    THEN Raise("create_sharing_link", <<file_id, link_type, scope>>)
    ELSE Call("create_sharing_link", <<file_id, link_type, scope>>, "POST",
              DriveItems \o file_id \o "/createLink",
              Json({<<"type", link_type>>, <<"scope", scope>>}),
              "json", ObjectResponses({"https://share.example/l1"}))

\* the permission in the answer is told by its link.webUrl
create_sharing_link(file_id, link_type, scope) ==
    IF Falsy(drive_id) THEN Raise("create_sharing_link", <<file_id, link_type, scope>>)
    ELSE Call("create_sharing_link", <<file_id, link_type, scope>>, "POST",
              DriveItems \o file_id \o "/createLink",
              Json({<<"type", link_type>>, <<"scope", scope>>}),
              "json", ObjectResponses({"https://share.example/l1"}))

delete_permission(file_id, permission_id) ==
    IF Falsy(drive_id) THEN Raise("delete_permission", <<file_id, permission_id>>)
    ELSE Call("delete_permission", <<file_id, permission_id>>, "DELETE",
              DriveItems \o file_id \o "/permissions/" \o permission_id,
              NoKwargs, "none", PlainResponses)

update_permission_role(file_id, permission_id, role) ==
    IF Falsy(drive_id)
    THEN Raise("update_permission_role", <<file_id, permission_id, role>>)
    ELSE Call("update_permission_role", <<file_id, permission_id, role>>, "PATCH",
              DriveItems \o file_id \o "/permissions/" \o permission_id,
              Json({<<"roles[0]", role>>}), "json", ObjectResponses({"item1"}))

----------------------------------------------------------------------------
(* Pages *)

SitePages == BaseUrl \o "/sites/" \o site_id \o "/pages"

get_all_pages ==
    IF Falsy(site_id) THEN Raise("get_all_pages", <<>>)
    ELSE Call("get_all_pages", <<>>, "GET", SitePages,
              NoKwargs, "value", ListResponses(ItemLists))

get_page_details(page_id) ==
    IF Falsy(site_id) THEN Raise("get_page_details", <<page_id>>)
    ELSE Call("get_page_details", <<page_id>>, "GET", SitePages \o "/" \o page_id,
              NoKwargs, "json", ObjectResponses({"item1"}))

create_page(name, title) ==
    IF Falsy(site_id) THEN Raise("create_page", <<name, title>>)
    ELSE Call("create_page", <<name, title>>, "POST", SitePages,
              Json({<<"name", name>>, <<"title", title>>,
                    <<"layoutWebpartId", "3eb3e627-5144-4667-83d5-7662c6abb714">>}),
              "json", ObjectResponses({"item1"}))

update_page(page_id, title, description) ==
    IF Falsy(site_id) THEN Raise("update_page", <<page_id, title, description>>)
    ELSE Call("update_page", <<page_id, title, description>>, "PATCH",
              SitePages \o "/" \o page_id,
              Json({<<"title", title>>, <<"description", description>>}),
              "json", ObjectResponses({"item1"}))

publish_page(page_id) ==
    IF Falsy(site_id) THEN Raise("publish_page", <<page_id>>)
    ELSE Call("publish_page", <<page_id>>, "POST",
              SitePages \o "/" \o page_id \o "/publish",
              NoKwargs, "none", PlainResponses)

delete_page(page_id) ==
    IF Falsy(site_id) THEN Raise("delete_page", <<page_id>>)
    ELSE Call("delete_page", <<page_id>>, "DELETE", SitePages \o "/" \o page_id,
              NoKwargs, "none", PlainResponses)

add_web_part_to_page(page_id, web_part_data) ==
    IF Falsy(site_id) THEN Raise("add_web_part_to_page", <<page_id, web_part_data>>)
    ELSE Call("add_web_part_to_page", <<page_id, web_part_data>>, "POST",
              SitePages \o "/" \o page_id \o "/webparts",
              Json({<<"webPartData", web_part_data>>}),
              "json", ObjectResponses({"item1"}))

----------------------------------------------------------------------------
(* Lists and list items *)

\* variant: the check of site_id is missing
get_lists_unguarded ==
    Call("get_lists", <<>>, "GET", BaseUrl \o "/sites/" \o site_id \o "/lists",
         NoKwargs, "value", ListResponses(ItemLists))

get_lists ==
    IF Falsy(site_id) THEN Raise("get_lists", <<>>)
    ELSE Call("get_lists", <<>>, "GET", BaseUrl \o "/sites/" \o site_id \o "/lists",
              NoKwargs, "value", ListResponses(ItemLists))

create_list_item(list_id, fields) ==
    IF Falsy(site_id) THEN Raise("create_list_item", <<list_id, fields>>)
    ELSE Call("create_list_item", <<list_id, fields>>, "POST",
              SiteLists \o list_id \o "/items",
              Json({<<"fields", fields>>}), "json", ObjectResponses({"item1"}))

get_list_item(list_id, item_id) ==
    IF Falsy(site_id) THEN Raise("get_list_item", <<list_id, item_id>>)
    ELSE Call("get_list_item", <<list_id, item_id>>, "GET",
              SiteLists \o list_id \o "/items/" \o item_id,
              NoKwargs, "json", ObjectResponses({"item1"}))

update_list_item(list_id, item_id, fields) ==
    IF Falsy(site_id) THEN Raise("update_list_item", <<list_id, item_id, fields>>)
    ELSE Call("update_list_item", <<list_id, item_id, fields>>, "PATCH",
              SiteLists \o list_id \o "/items/" \o item_id,
              Json({<<"fields", fields>>}), "json", ObjectResponses({"item1"}))

delete_list_item(list_id, item_id) ==
    IF Falsy(site_id) THEN Raise("delete_list_item", <<list_id, item_id>>)
    ELSE Call("delete_list_item", <<list_id, item_id>>, "DELETE",
              SiteLists \o list_id \o "/items/" \o item_id,
              NoKwargs, "none", PlainResponses)

----------------------------------------------------------------------------

\* the client as __init__ leaves it, with ops calls to come
Constructed(ops) ==
    /\ access_token = None
    /\ site_id = None
    /\ drive_id = None
    /\ sent = <<>>
    /\ last = [op |-> "__init__", args |-> <<>>, outcome |-> "ok",
               tstatus |-> 0, rstatus |-> 0, nextLink |-> FALSE, result |-> None,
               token |-> None, site |-> None, drive |-> None,
               response |-> NoResponse]
    /\ issued = {}
    /\ tokenCalls = 0
    /\ opsLeft = ops
    /\ createdSessions = {}
    /\ cancelledSessions = {}
    /\ disk = [p \in Paths |-> IF p = <<"docs", "in.txt">>
                               THEN [exists |-> TRUE, content |-> <<1, 2>>]
                               ELSE [exists |-> FALSE, content |-> <<>>]]
    /\ driveSite = None

\* the service, with entries in the root folder of every drive
Remote(entries) == remote = [d \in DriveIds |-> entries]

Init == Constructed(MaxOps) /\ Remote(<<"Y">>)

Next ==
    \/ get_access_token
    \/ \E n \in SiteNames : get_site_id(n)
    \/ get_drive_id
    \/ create_folder("X", "root")
    \/ delete_file("f1")
    \/ rename_file("f1", "new.txt")
    \/ copy_file("f1", "copy.txt", "root")
    \/ move_file("f1", "folder1")
    \/ get_file_metadata("f1")
    \/ get_folder_contents("root")
    \/ search_files("test")
    \/ \E p \in Paths : download_file("f1", p)
    \/ \E p \in Paths : upload_file(p, "root")
    \/ create_upload_session("big.bin", "root")
    \/ \E u \in SessionUrls, c \in Chunks, r \in Ranges :
          upload_chunk(u, c, r[1], r[2], r[3])
    \/ \E u \in SessionUrls : get_upload_session_status(u)
    \/ \E u \in SessionUrls : cancel_upload_session(u)
    \/ get_all_document_sets("list1")
    \/ get_document_set_details("list1", "ds1")
    \/ create_document_set("list1", "Title")
    \/ update_document_set("list1", "ds1", "Title")
    \/ get_documents_in_set("ds1")
    \/ delete_document_set("list1", "ds1")
    \/ get_item_permissions("f1")
    \/ share_with_user("f1", "user@example.com", "edit")
    \/ \E t \in LinkTypes, sc \in LinkScopes : create_sharing_link("f1", t, sc)
    \/ delete_permission("f1", "perm1")
    \/ update_permission_role("f1", "perm1", "read")
    \/ get_all_pages
    \/ get_page_details("page1")
    \/ create_page("DemoPage.aspx", "Demo")
    \/ update_page("page1", "Demo", "")
    \/ publish_page("page1")
    \/ delete_page("page1")
    \/ add_web_part_to_page("page1", "webpart")
    \/ get_lists
    \/ create_list_item("list1", "fields")
    \/ get_list_item("list1", "li1")
    \/ update_list_item("list1", "li1", "fields")
    \/ delete_list_item("list1", "li1")

Spec == Init /\ [][Next]_vars

\* the upload-session protocol: the setup calls, the session calls, and
\* delete_file, the other method that sends a DELETE
InitUpload == Constructed(MaxUploadOps) /\ Remote(<<"Y">>)

NextUpload ==
    \/ get_site_id("A")
    \/ get_drive_id
    \/ delete_file("f1")
    \/ create_upload_session("big.bin", "root")
    \/ \E u \in SessionUrls, c \in Chunks, r \in Ranges :
          upload_chunk(u, c, r[1], r[2], r[3])
    \/ \E u \in SessionUrls : get_upload_session_status(u)
    \/ \E u \in SessionUrls : cancel_upload_session(u)

SpecUpload == InitUpload /\ [][NextUpload]_vars

\* the client against a drive whose root folder holds any of the prior
\* contents: setup, create_folder and get_folder_contents
InitFolder == \E e \in PriorContents : Constructed(MaxFolderOps) /\ Remote(e)

NextFolder ==
    \/ get_site_id("A")
    \/ get_drive_id
    \/ create_folder("X", "root")
    \/ get_folder_contents("root")

SpecFolder == InitFolder /\ [][NextFolder]_vars

\* the setup methods, called for one site after another, and two drive-scoped
\* methods
InitSite == Constructed(MaxSiteOps) /\ Remote(<<"Y">>)

NextSite ==
    \/ \E n \in SiteNames : get_site_id(n)
    \/ get_drive_id
    \/ get_file_metadata("f1")
    \/ get_folder_contents("root")

SpecSite == InitSite /\ [][NextSite]_vars

----------------------------------------------------------------------------
(* Properties *)

DriveOps ==
    {"create_folder", "delete_file", "rename_file", "copy_file", "move_file",
     "get_file_metadata", "get_folder_contents", "search_files", "download_file",
     "upload_file", "create_upload_session", "get_documents_in_set",
     "get_item_permissions", "share_with_user", "create_sharing_link",
     "delete_permission", "update_permission_role"}

SiteOps ==
    {"get_drive_id", "get_all_document_sets", "get_document_set_details",
     "create_document_set", "update_document_set", "delete_document_set",
     "get_all_pages", "get_page_details", "create_page", "update_page",
     "publish_page", "delete_page", "add_web_part_to_page", "get_lists",
     "create_list_item", "get_list_item", "update_list_item", "delete_list_item"}

SessionOps == {"upload_chunk", "get_upload_session_status", "cancel_upload_session"}

\* every method that goes to a resource endpoint
ResourceOps == DriveOps \cup SiteOps \cup SessionOps \cup {"get_site_id"}

ListOps ==
    {"get_folder_contents", "search_files", "get_documents_in_set",
     "get_item_permissions", "get_all_document_sets", "get_all_pages", "get_lists"}

TokenRequestsSent == Cardinality({i \in DOMAIN sent : sent[i].endpoint = "token"})
ResourceRequestsSent == Cardinality({i \in DOMAIN sent : sent[i].endpoint = "resource"})

\* the last call left the three cached fields as they were
FieldsUnchanged ==
    access_token = last.token /\ site_id = last.site /\ drive_id = last.drive

\* C1: a drive-scoped method called while drive_id is not set fails with the
\* context error, sends no request (token or resource) and leaves access_token,
\* site_id and drive_id unchanged.
C1_DriveScopeFailsFast ==
    (last.op \in DriveOps /\ Falsy(last.drive))
        => /\ last.outcome = "ContextError"
           /\ sent = <<>>
           /\ FieldsUnchanged

C1_Witness ==
    /\ last.op = "upload_file"
    /\ ~Falsy(last.site)
    /\ Falsy(last.drive)
    /\ last.outcome = "ContextError"

\* C2: a site-scoped method called while site_id is not set fails with the
\* context error before any request is sent and leaves access_token, site_id
\* and drive_id unchanged.
C2_SiteScopeFailsFast ==
    (last.op \in SiteOps /\ Falsy(last.site))
        => /\ last.outcome = "ContextError"
           /\ sent = <<>>
           /\ FieldsUnchanged

C2_Witness ==
    /\ last.op = "get_lists"
    /\ ~Falsy(last.token)
    /\ Falsy(last.site)
    /\ last.outcome = "ContextError"

\* C3 as stated: the token endpoint is invoked at most once over any sequence
\* of public calls on one client.
C3_TokenEndpointAtMostOnce == tokenCalls <= 1

\* C3 amended: one call invokes the token endpoint at most once; a resource
\* method invokes it only when no token is cached, so resource calls made while
\* a token is cached never invoke it; get_access_token invokes it on every call.
C3_TokenOnlyWhenAbsent ==
    /\ TokenRequestsSent <= 1
    /\ (last.op \in ResourceOps /\ ~Falsy(last.token)) => TokenRequestsSent = 0
    /\ (last.op \in ResourceOps /\ TokenRequestsSent = 1) => Falsy(last.token)
    /\ last.op = "get_access_token" => TokenRequestsSent = 1

\* two resource calls in a row with the token of the first call still cached
C3_Witness ==
    /\ last.op \in DriveOps
    /\ last.outcome = "ok"
    /\ ~Falsy(last.token)
    /\ ResourceRequestsSent = 1
    /\ TokenRequestsSent = 0
    /\ tokenCalls = 1

\* C4 as stated: a resource response whose status is not 2xx makes the call
\* fail with the remote error, after one request, the cached fields unchanged.
C4_Non2xxIsRemoteError ==
    (last.op \in ResourceOps /\ ResourceRequestsSent >= 1 /\ last.rstatus \notin 200..299)
        => /\ last.outcome = "RemoteError"
           /\ ResourceRequestsSent = 1
           /\ FieldsUnchanged

\* C4 amended: a resource response whose status is 4xx or 5xx makes the call
\* fail with the remote error carrying that status, with no return value, after
\* exactly one resource request; site_id and drive_id are unchanged, and so is
\* a token that was cached when the call began (a token the call itself had to
\* acquire stays cached).
C4_ErrorStatusIsRemoteError ==
    (last.op \in ResourceOps /\ ResourceRequestsSent >= 1 /\ last.rstatus \in 400..599)
        => /\ last.outcome = "RemoteError"
           /\ last.result = None
           /\ ResourceRequestsSent = 1
           /\ site_id = last.site
           /\ drive_id = last.drive
           /\ ~Falsy(last.token) => access_token = last.token
           /\ ~Falsy(access_token)

C4_Witness ==
    /\ last.op = "rename_file"
    /\ last.rstatus = 404
    /\ last.outcome = "RemoteError"
    /\ ~Falsy(last.token)
    /\ access_token = last.token

\* C5: every request sent to a resource endpoint carries an Authorization
\* header "Bearer <token>" whose token the token endpoint has returned.
C5_BearerIsIssuedToken ==
    \A i \in DOMAIN sent :
        sent[i].endpoint = "resource"
            => \E t \in issued : <<"Authorization", "Bearer " \o t>> \in sent[i].headers

\* C6 as stated: a call that passes its precondition check makes exactly one
\* network round trip.
C6_ExactlyOneRoundTrip ==
    (last.op # "__init__" /\ last.outcome # "ContextError") => Len(sent) = 1

\* C6 amended: a call that passes its precondition check sends at most one
\* token request and at most one resource request: the token request exactly
\* when the method is get_access_token or no token is cached, the resource
\* request exactly when the method is a resource method and a token is at hand
\* afterwards (upload_file sends nothing when its local file cannot be opened);
\* a list-returning method returns the collection of its one response also when
\* the response carries a continuation link.
C6_RoundTrips ==
    (last.op # "__init__" /\ last.outcome # "ContextError")
        => LET unread == last.op = "upload_file" /\ last.outcome = "OSError"
           IN  /\ TokenRequestsSent
                    = IF ~unread /\ (last.op = "get_access_token" \/ Falsy(last.token))
                      THEN 1 ELSE 0
               /\ ResourceRequestsSent
                    = IF ~unread /\ last.op \in ResourceOps /\ ~Falsy(access_token)
                      THEN 1 ELSE 0
               /\ (last.op \in ListOps /\ last.outcome = "ok")
                    => ResourceRequestsSent = 1 /\ last.result = last.response.value

\* a list call whose one response carried a continuation link
C6_Witness ==
    /\ last.op \in ListOps
    /\ last.outcome = "ok"
    /\ last.nextLink
    /\ Len(sent) = 1

\* C7 as stated: a non-2xx answer of the token endpoint makes the call fail
\* with the auth error, access_token unset, no resource request, one token
\* request.
C7_TokenNon2xxIsAuthError ==
    (TokenRequestsSent >= 1 /\ last.tstatus \notin 200..299)
        => /\ last.outcome = "AuthError"
           /\ Falsy(access_token)
           /\ ResourceRequestsSent = 0
           /\ TokenRequestsSent = 1

\* C7 amended: a 4xx or 5xx answer of the token endpoint makes the call that
\* asked fail with the auth error after one token request and no resource
\* request; access_token is left as it was: unset when a resource method asked,
\* the previously cached token when get_access_token was called again.
C7_TokenErrorStatusIsAuthError ==
    (TokenRequestsSent >= 1 /\ last.tstatus \in 400..599)
        => /\ last.outcome = "AuthError"
           /\ last.result = None
           /\ access_token = last.token
           /\ last.op \in ResourceOps => Falsy(access_token)
           /\ ResourceRequestsSent = 0
           /\ TokenRequestsSent = 1

C7_Witness ==
    /\ last.op \in ResourceOps
    /\ last.tstatus = 401
    /\ last.outcome = "AuthError"
    /\ Falsy(access_token)
    /\ Len(sent) = 1

\* the resource requests of the last call
ResourceRequests == {sent[i] : i \in {j \in DOMAIN sent : sent[j].endpoint = "resource"}}

\* C8: upload_chunk, get_upload_session_status and cancel_upload_session are
\* accepted in every client state, whatever the session's history and the
\* chunk's range: none fails on a precondition, each sends its one request to
\* the session URL it was given, and none changes site_id or drive_id.
C8_SessionCallsUnordered ==
    last.op \in SessionOps
        => /\ last.outcome # "ContextError"
           /\ site_id = last.site
           /\ drive_id = last.drive
           /\ ~Falsy(access_token)
                => /\ ResourceRequestsSent = 1
                   /\ \A q \in ResourceRequests :
                        /\ q.url = last.args[1]
                        /\ q.method = CASE last.op = "upload_chunk" -> "PUT"
                                        [] last.op = "get_upload_session_status" -> "GET"
                                        [] OTHER -> "DELETE"

\* a chunk whose range ends before it starts, sent by a client without site or
\* drive to a session this client never created and has already cancelled
C8_Witness ==
    /\ last.op = "upload_chunk"
    /\ Falsy(last.site)
    /\ Falsy(last.drive)
    /\ last.args[1] \in cancelledSessions \ createdSessions
    /\ last.args[3] > last.args[4]
    /\ ResourceRequestsSent = 1

\* C9: a DELETE goes to a session URL only from cancel_upload_session called
\* with that URL; a failed upload_chunk has sent its chunk once and nothing else
\* to the resource endpoint.
C9_NoImplicitCancel ==
    /\ \A q \in ResourceRequests :
          (q.method = "DELETE" /\ q.url \in SessionUrls)
              => (last.op = "cancel_upload_session" /\ q.url = last.args[1])
    /\ (last.op = "upload_chunk" /\ last.outcome # "ok")
          => /\ ResourceRequestsSent <= 1
             /\ \A q \in ResourceRequests : q.method = "PUT"

\* a chunk rejected by the service, on a session this client created and has
\* not cancelled
C9_Witness ==
    /\ last.op = "upload_chunk"
    /\ last.outcome = "RemoteError"
    /\ last.args[1] \in createdSessions \ cancelledSessions
    /\ ResourceRequestsSent = 1

\* C10: the request of upload_chunk carries exactly one Content-Range header,
\* "bytes {start}-{end}/{total_size}" with the three values as supplied.
C10_ContentRangeAsSupplied ==
    (last.op = "upload_chunk" /\ ResourceRequestsSent = 1)
        => \A q \in ResourceRequests :
              {h \in q.headers : h[1] = "Content-Range"}
                  = {<<"Content-Range",
                       "bytes " \o ToString(last.args[3]) \o "-"
                                \o ToString(last.args[4]) \o "/"
                                \o ToString(last.args[5])>>}

\* a range that is shorter than the chunk and ends at the total size
C10_Witness ==
    /\ last.op = "upload_chunk"
    /\ ResourceRequestsSent = 1
    /\ last.args[4] - last.args[3] + 1 # Len(last.args[2])
    /\ last.args[4] >= last.args[5]

\* C11: with drive_id set, rename_file(id, new_name) sends exactly one PATCH
\* request, to <base>/drives/{drive_id}/items/{id}, whose JSON body is the
\* single field name = new_name, and a successful call returns the decoded
\* response as it came (its name is new_name when the service echoes it).
C11_RenameSendsOnePatch ==
    (last.op = "rename_file" /\ ~Falsy(last.drive))
        => /\ ResourceRequestsSent = 1
           /\ \A q \in ResourceRequests :
                 /\ q.method = "PATCH"
                 /\ q.url = BaseUrl \o "/drives/" \o last.drive \o "/items/"
                                   \o last.args[1]
                 /\ q.encoding = "json"
                 /\ q.json = {<<"name", last.args[2]>>}
           /\ last.outcome = "ok" => last.result = last.response.id

\* a rename the service answers with the renamed item
C11_Witness ==
    /\ last.op = "rename_file"
    /\ ~Falsy(last.drive)
    /\ last.outcome = "ok"
    /\ last.response.id = last.args[2]
    /\ last.result = last.args[2]

\* C12: with drive_id set, create_sharing_link sends one POST whose JSON body
\* is exactly {type, scope} as supplied, for every pair, valid or not: nothing
\* is rejected by the client, a call fails only through the answer of the
\* service, and a successful call returns the decoded response as it came.
C12_LinkBodyAsSupplied ==
    (last.op = "create_sharing_link" /\ ~Falsy(last.drive))
        => /\ ResourceRequestsSent = 1
           /\ \A q \in ResourceRequests :
                 /\ q.method = "POST"
                 /\ q.url = BaseUrl \o "/drives/" \o last.drive \o "/items/"
                                   \o last.args[1] \o "/createLink"
                 /\ q.encoding = "json"
                 /\ q.json = {<<"type", last.args[2]>>, <<"scope", last.args[3]>>}
           /\ last.outcome # "ContextError"
           /\ last.outcome = "RemoteError" <=> last.rstatus \in 400..599
           /\ last.outcome = "ok" => last.result = last.response.id

\* a link type the service does not know: sent as given and answered normally,
\* or rejected by the service
C12_Witness ==
    /\ last.op = "create_sharing_link"
    /\ ~Falsy(last.drive)
    /\ last.args[2] = "bogus"
    /\ last.outcome = "ok"
    /\ last.result = "https://share.example/l1"

\* a successful create_folder(name, 'root') immediately followed by a
\* successful get_folder_contents('root')
CreatedThenListed ==
    /\ last.op = "create_folder"
    /\ last.args[2] = "root"
    /\ last.outcome = "ok"
    /\ last'.op = "get_folder_contents"
    /\ last'.args = <<"root">>
    /\ last'.outcome = "ok"

\* C13 as stated: after create_folder("X") in the root folder succeeds, an
\* immediately following get_folder_contents('root') returns a collection
\* that includes an entry named "X", whatever the folder held before.
C13_ListingIncludesCreated ==
    [][CreatedThenListed => last.args[1] \in Range(last'.result)]_vars

\* C13: after create_folder("X") in the root folder succeeds, the root folder
\* holds an entry named "X" (the new folder, or the one that was there when
\* the new one was renamed), and an immediately following
\* get_folder_contents('root') returns the first page of the folder's
\* listing: it includes "X" whenever the listing fits in one page.
C13_ListingIsFirstPage ==
    [][CreatedThenListed
        => /\ last.args[1] \in Range(remote[drive_id])
           /\ last'.result = FirstPage(remote[drive_id])
           /\ Len(remote[drive_id]) <= PageSize
                 => last.args[1] \in Range(last'.result)]_vars

\* "X" was there, the new folder was renamed, and the listing shows both
C13_Witness ==
    /\ last.op = "get_folder_contents"
    /\ last.outcome = "ok"
    /\ "X" \in Range(last.result)
    /\ "X 1" \in Range(last.result)

\* C14 as stated: download_file sends its request before it touches the
\* destination; when the remote call fails (context error, auth error or a
\* non-2xx response) the destination is neither created nor truncated nor
\* written; a write failure is a filesystem error that comes after exactly one
\* resource request.
C14_Non2xxLeavesDestination ==
    [][last'.op = "download_file"
        => /\ (\/ last'.outcome \in {"ContextError", "AuthError", "RemoteError"}
               \/ ResourceRequestsSent' = 0
               \/ last'.rstatus \notin 200..299) => disk' = disk
           /\ last'.outcome = "OSError" => ResourceRequestsSent' = 1]_vars

\* C14: download_file sends its request before it touches the destination;
\* when the call fails before or in the request (context error, failed token
\* acquisition, 4xx or 5xx response) the destination is neither created nor
\* truncated nor written; the destination changes only after the one resource
\* request was answered with a status below 400, and a write failure is a
\* filesystem error, not the remote error, that comes after exactly one
\* resource request.
C14_RemoteErrorLeavesDestination ==
    [][last'.op = "download_file"
        => /\ (\/ last'.outcome \in {"ContextError", "AuthError", "JSONDecodeError",
                                     "RemoteError"}
               \/ ResourceRequestsSent' = 0
               \/ last'.rstatus \in 400..599) => disk' = disk
           /\ disk' # disk => ResourceRequestsSent' = 1 /\ last'.rstatus \in 200..399
           /\ last'.outcome = "OSError"
                 => ResourceRequestsSent' = 1 /\ last'.rstatus \in 200..399]_vars

\* a download onto an existing file that the service rejects: the file is as
\* it was
C14_Witness ==
    /\ last.op = "download_file"
    /\ last.args[2] = <<"docs", "in.txt">>
    /\ last.outcome = "RemoteError"
    /\ ResourceRequestsSent = 1
    /\ disk[<<"docs", "in.txt">>] = [exists |-> TRUE, content |-> <<1, 2>>]

\* the drives lookup of get_drive_id was answered with a decoded collection
DrivesListed ==
    /\ last.op = "get_drive_id"
    /\ ~Falsy(last.site)
    /\ ResourceRequestsSent = 1
    /\ last.rstatus \in 200..299
    /\ last.response.json

\* C15: when site_id is set and the drives lookup returns an empty collection,
\* get_drive_id fails with a fault and drive_id is as it was, so that a
\* drive-scoped call made while it is unset still fails with the context
\* error; when the collection is not empty, drive_id becomes the id of its
\* first element and that value is returned.
C15_FirstDriveOrFault ==
    [][/\ (DrivesListed /\ last.response.value = <<>>)'
            => (last.outcome = "IndexError" /\ last.result = None)' /\ drive_id' = drive_id
       /\ (DrivesListed /\ last.response.value # <<>>)'
            => (/\ last.outcome = "ok"
                /\ drive_id = last.response.value[1]
                /\ last.result = drive_id)'
       /\ (DrivesListed /\ last.outcome = "IndexError" /\ Falsy(drive_id)
              /\ last'.op \in DriveOps)
            => (last.outcome = "ContextError" /\ sent = <<>>)']_vars

\* a site without drives: the lookup faults and drive_id stays unset
C15_Witness ==
    /\ DrivesListed
    /\ last.response.value = <<>>
    /\ last.outcome = "IndexError"
    /\ Falsy(last.drive)
    /\ Falsy(drive_id)

\* C16: in every state drive_id set implies site_id set, which implies
\* access_token set; a field that is set never returns to unset;
\* access_token changes only in a call that acquires a token
\* (get_access_token, or another method called with no token cached), site_id
\* only in a successful get_site_id, drive_id only in a successful
\* get_drive_id; every other method leaves site_id and drive_id as they were,
\* and access_token too unless it acquired it.
C16_ContextOnlyGrows ==
    [][/\ (~Falsy(drive_id) => ~Falsy(site_id))'
       /\ (~Falsy(site_id) => ~Falsy(access_token))'
       /\ ~Falsy(access_token) => ~Falsy(access_token')
       /\ ~Falsy(site_id) => ~Falsy(site_id')
       /\ ~Falsy(drive_id) => ~Falsy(drive_id')
       /\ access_token' # access_token
            => /\ TokenRequestsSent' = 1
               /\ access_token' \in issued'
               /\ last'.op = "get_access_token" \/ Falsy(access_token)
       /\ site_id' # site_id => (last.op = "get_site_id" /\ last.outcome = "ok")'
       /\ drive_id' # drive_id => (last.op = "get_drive_id" /\ last.outcome = "ok")'
       /\ last'.op \notin {"get_access_token", "get_site_id", "get_drive_id"}
            => /\ site_id' = site_id
               /\ drive_id' = drive_id
               /\ TokenRequestsSent' = 0 => access_token' = access_token]_vars

\* all three set, and a further token acquisition failed without dropping the
\* token
C16_Witness ==
    /\ ~Falsy(drive_id)
    /\ ~Falsy(site_id)
    /\ last.op = "get_access_token"
    /\ last.outcome = "AuthError"
    /\ ~Falsy(access_token)
    /\ access_token = last.token

\* C17: a successful get_site_id made while a drive is cached overwrites
\* site_id and leaves drive_id as it was: after get_site_id(A), get_drive_id(),
\* get_site_id(B), drive_id is still the drive resolved under site A, and
\* drive-scoped methods are still accepted and addressed to that drive until
\* get_drive_id is called again.
C17_DriveOutlivesSite ==
    [][/\ last'.op = "get_site_id"
            => /\ drive_id' = drive_id
               /\ driveSite' = driveSite
               /\ last'.outcome = "ok" => site_id' = last'.response.id
       /\ (last'.op \in DriveOps /\ ~Falsy(drive_id))
            => /\ last'.outcome # "ContextError"
               /\ ResourceRequestsSent' = 1
               /\ drive_id' = drive_id
               /\ last'.op = "get_file_metadata"
                    => \A q \in ResourceRequests' :
                          q.url = BaseUrl \o "/drives/" \o drive_id \o "/items/"
                                          \o last'.args[1]
               /\ last'.op = "get_folder_contents"
                    => \A q \in ResourceRequests' :
                          q.url = BaseUrl \o "/drives/" \o drive_id \o "/items/"
                                          \o last'.args[1] \o "/children"]_vars

\* the cached site is no longer the one the drive was resolved under, and a
\* drive-scoped call went through to that drive
C17_Witness ==
    /\ last.op = "get_file_metadata"
    /\ last.outcome = "ok"
    /\ ~Falsy(driveSite)
    /\ site_id # driveSite
    /\ drive_id = last.drive
    /\ \A q \in ResourceRequests :
          q.url = BaseUrl \o "/drives/" \o drive_id \o "/items/f1"

====
